---- MODULE Spec2Model ----
(***************************************************************************)
(* A model of the proof calculus of bvssvni/prop: the tactics for logical  *)
(* AND (and.rs) and logical EQ (eq.rs), the path semantical order and the  *)
(* core axiom (path_semantics.rs) and the functional algebra (fun.rs).     *)
(*                                                                         *)
(* Propositions are Rust types and proofs are values of them.  A type is   *)
(* modelled as a term (a tuple headed by the name of its former); a proof  *)
(* assembly is modelled as the set of types for which a value has been     *)
(* built so far, each tactic being one action that adds the type it        *)
(* returns when values of its parameter types are held.                    *)
(***************************************************************************)
EXTENDS Naturals, FiniteSets, Sequences, TLC

VARIABLES
    pord,   \* path order: the pairs <<T, U>> for which a POrdProof<T, U> value is held
    eqs,    \* path order: the pairs <<A, B>> for which an Eq<A, B> value is held
    last,   \* path order: the last POrdProof operation applied, its inputs and its result
    proofs, \* proof assembly: the types for which a proof value is held
    hyps,   \* proof assembly: the types assumed (the parameters of the proof being built)
    step,   \* proof assembly: the last tactic applied, its inputs and its result
    env,    \* run time: the closures the caller holds (returned by tactics, not yet dropped)
    held,   \* run time: the supplied sub-proofs the caller has not moved yet
    strong, \* run time: the strong count of the allocation of each supplied sub-proof
    res,    \* run time: the last call made, its argument, its outcome and the counts at the call
    built,  \* composition: the PSem instances built by comp, by name
    outs    \* composition: the last argument and result of each composite invoked

povars == <<pord, eqs, last>>
pavars == <<proofs, hyps, step>>
rtvars == <<env, held, strong, res>>
cpvars == <<built, outs>>
vars == <<povars, pavars, rtvars, cpvars>>
notPath == <<pavars, rtvars, cpvars>>
notAssembly == <<povars, rtvars, cpvars>>
notRun == <<povars, pavars, cpvars>>
notComp == <<povars, pavars, rtvars>>

(***************************************************************************)
(* Proposition terms.                                                      *)
(***************************************************************************)
True == <<"True">>
False == <<"False">>
A0 == <<"A">>

And(T, U) == <<"And", T, U>>
Or(T, U) == <<"Or", T, U>>
Imply(T, U) == <<"Imply", T, U>>
POrdProof(T, U) == <<"POrdProof", T, U>>
Not(T) == Imply(T, False)
Eq(T, U) == And(Imply(T, U), Imply(U, T))

\* The type parameters the path-order operations are instantiated at.
Props ==
    {True, False, A0}
    \cup {<<c, A0, False>> : c \in {"And", "Or", "Imply", "POrdProof"}}
    \cup {And(A0, A0), And(And(A0, A0), A0)}
\* The type parameters decide() is instantiated at.
DecideArgs == {True, False}

\* Bounds on the number of proofs held at once.
MaxPOrd == 2
MaxEq == 2

(***************************************************************************)
(* Path semantical order (path_semantics.rs).                              *)
(***************************************************************************)
\* The types that implement PBinOrd, with their associated types.
PBinOrd(T) == Len(T) = 3 /\ T[1] \in {"And", "Or", "Imply", "POrdProof"}
PBinOrdLeft(T) == T[2]
PBinOrdRight(T) == T[3]

\* A path order that places the operand first and the compound second.
POrdOperandFirst(T, U) ==
    \/ PBinOrd(U) /\ T = PBinOrdLeft(U)
    \/ PBinOrd(U) /\ T = PBinOrdRight(U)
    \/ T = True /\ U = False

\* A path order with one more blanket impl, impl<T> POrd<T> for T.
POrdReflexive(T, U) ==
    \/ PBinOrd(T) /\ U = PBinOrdLeft(T)
    \/ PBinOrd(T) /\ U = PBinOrdRight(T)
    \/ T = True /\ U = False
    \/ T = U

\* T: POrd<U>, by the three impls of the marker trait.
POrd(T, U) ==
    \/ PBinOrd(T) /\ U = PBinOrdLeft(T)
    \/ PBinOrd(T) /\ U = PBinOrdRight(T)
    \/ T = True /\ U = False

NoPair == <<>>
Op(op, in, eq, out) == [op |-> op, in |-> in, eq |-> eq, out |-> out]

\* The result types of the methods of POrdProof<T, U>.
TransitivityTy(T, U, V) == <<T, V>>
ByEqLeftTy(T, U, V) == <<T, V>>
ByEqRightTy(T, U, V) == <<T, U>>

Issue(p) == Cardinality(pord \cup {p}) <= MaxPOrd /\ pord' = pord \cup {p}
Hold(e) == Cardinality(eqs \cup {e}) <= MaxEq /\ eqs' = eqs \cup {e}

\* impl Default for POrdProof<T, U> where T: POrd<U>: the proof it returns.
Default(T, U) == <<T, U>>

\* POrdProof::new, which is Self::default() under the constraint T: POrd<U>.
New(T, U) ==
    /\ POrd(T, U)
    /\ Issue(Default(T, U))
    /\ last' = Op("new", NoPair, NoPair, Default(T, U))
    /\ UNCHANGED <<eqs, notPath>>

\* impl Clone for POrdProof<T, U>.
Clone(p) ==
    /\ p \in pord
    /\ last' = Op("clone", p, NoPair, p)
    /\ UNCHANGED <<pord, eqs, notPath>>

\* impl Decidable for POrdProof<T, U>: decide() returns Left(POrdProof(..)).
Decide(T, U) ==
    /\ Issue(<<T, U>>)
    /\ last' = Op("decide", NoPair, NoPair, <<T, U>>)
    /\ UNCHANGED <<eqs, notPath>>

\* POrdProof::transitivity.
Transitivity(p, q) ==
    /\ p \in pord /\ q \in pord /\ p[2] = q[1]
    /\ Issue(TransitivityTy(p[1], p[2], q[2]))
    /\ last' = Op("transitivity", p, q, TransitivityTy(p[1], p[2], q[2]))
    /\ UNCHANGED <<eqs, notPath>>

\* POrdProof::by_eq_left.
ByEqLeft(p, e) ==
    /\ p \in pord /\ e \in eqs /\ e[1] = p[1]
    /\ Issue(ByEqLeftTy(p[1], p[2], e[2]))
    /\ last' = Op("by_eq_left", p, e, ByEqLeftTy(p[1], p[2], e[2]))
    /\ UNCHANGED <<eqs, notPath>>

\* POrdProof::by_eq_right.
ByEqRight(p, e) ==
    /\ p \in pord /\ e \in eqs /\ e[1] = p[2]
    /\ Issue(ByEqRightTy(p[1], p[2], e[2]))
    /\ last' = Op("by_eq_right", p, e, ByEqRightTy(p[1], p[2], e[2]))
    /\ UNCHANGED <<eqs, notPath>>

(***************************************************************************)
(* Tactics for logical EQ, at the level of types (eq.rs).                  *)
(***************************************************************************)
EqTransitivityTy(A, B, C) == <<A, C>>
EqCommuteTy(A, B) == <<B, A>>
EqReflTy(A) == <<A, A>>

EqRefl(A) ==
    /\ Hold(EqReflTy(A))
    /\ UNCHANGED <<pord, last, notPath>>

EqCommute(e) ==
    /\ e \in eqs
    /\ Hold(EqCommuteTy(e[1], e[2]))
    /\ UNCHANGED <<pord, last, notPath>>

EqTransitivity(e, g) ==
    /\ e \in eqs /\ g \in eqs /\ e[2] = g[1]
    /\ Hold(EqTransitivityTy(e[1], e[2], g[2]))
    /\ UNCHANGED <<pord, last, notPath>>

\* The sub-proofs supplied to the closure-building tactics, by parameter name:
\* f of from_de_morgan, (f0, f1) of to_de_morgan, nb of to_imply, and f, g and
\* the four implications of comp.  An allocation is named <<parameter, version>>.
Given(n) == <<n, 1>>
GivenIds ==
    {Given(n) : n \in {"f", "f0", "f1", "nb", "pf", "pg", "f1_f3", "f2_f4", "f3_x1", "f4_x2"}}

None == <<"none">>
NoRes == [fn |-> None, arg |-> <<>>, out |-> None, rc |-> [id \in GivenIds |-> 0]]
NoOut == [arg |-> None, out |-> None]
Composites == {"fg_h", "f_gh"}

\* No POrdProof operation is in progress.
PathIdle ==
    /\ pord = {}
    /\ eqs = {}
    /\ last = Op("none", NoPair, NoPair, NoPair)

\* No proof is being assembled.
AssemblyIdle ==
    /\ proofs = {}
    /\ hyps = {}
    /\ step = [tactic |-> "none", targs |-> <<>>, ins |-> {}, out |-> <<>>]

\* No closure has been built or called.
RunIdle ==
    /\ env = {}
    /\ held = {}
    /\ strong = [id \in GivenIds |-> 0]
    /\ res = NoRes

\* No PSem instance has been composed.
CompIdle ==
    /\ built = [s \in {"fg", "gh"} \cup Composites |-> None]
    /\ outs = [s \in Composites |-> NoOut]

Init ==
    /\ pord = {}
    /\ eqs \in {{}, {<<And(A0, A0), A0>>}}
    /\ last = Op("none", NoPair, NoPair, NoPair)
    /\ AssemblyIdle
    /\ RunIdle
    /\ CompIdle

Next ==
    \/ \E T \in Props, U \in Props : New(T, U)
    \/ \E p \in pord : Clone(p)
    \/ \E T \in DecideArgs, U \in DecideArgs : Decide(T, U)
    \/ \E p \in pord, q \in pord : Transitivity(p, q)
    \/ \E p \in pord, e \in eqs : ByEqLeft(p, e)
    \/ \E p \in pord, e \in eqs : ByEqRight(p, e)
    \/ \E T \in {A0, And(A0, A0)} : EqRefl(T)
    \/ \E e \in eqs : EqCommute(e)
    \/ \E e \in eqs, g \in eqs : EqTransitivity(e, g)

Spec == Init /\ [][Next]_vars

(***************************************************************************)
(* Claims about the path order.                                            *)
(***************************************************************************)
\* The Eq proofs obtainable from a set of held ones with eq::refl, eq::commute
\* and eq::transitivity.
EqStep(E) ==
    E \cup {EqReflTy(T) : T \in Props}
      \cup {EqCommuteTy(e[1], e[2]) : e \in E}
      \cup {EqTransitivityTy(x[1][1], x[1][2], x[2][2]) :
                x \in {y \in E \X E : y[1][2] = y[2][1]}}

RECURSIVE EqClosure(_)
EqClosure(E) == IF EqStep(E) = E THEN E ELSE EqClosure(EqStep(E))

\* The POrdProof pairs obtainable from new/default with transitivity, by_eq_left,
\* by_eq_right and clone, the Eq proofs being those of E.
POrdStep(S, E) ==
    S \cup {Default(p[1], p[2]) : p \in {r \in Props \X Props : POrd(r[1], r[2])}}
      \cup {TransitivityTy(x[1][1], x[1][2], x[2][2]) :
                x \in {y \in S \X S : y[1][2] = y[2][1]}}
      \cup {ByEqLeftTy(x[1][1], x[1][2], x[2][2]) :
                x \in {y \in S \X E : y[2][1] = y[1][1]}}
      \cup {ByEqRightTy(x[1][1], x[1][2], x[2][2]) :
                x \in {y \in S \X E : y[2][1] = y[1][2]}}

RECURSIVE POrdClosure(_, _)
POrdClosure(S, E) == IF POrdStep(S, E) = S THEN S ELSE POrdClosure(POrdStep(S, E), E)

\* C2: every POrdProof<T, U> held was issued by new/default under T: POrd<U> or is
\* obtainable from such proofs by transitivity, by_eq_left, by_eq_right and clone;
\* no other operation (Decidable::decide included) yields any other pair.
C2_OnlySanctionedIntroductions == pord \subseteq POrdClosure({}, EqClosure(eqs))

\* U is the compound of a binary connective and T is its left or right operand.
OperandOf(T, U) ==
    \E c \in {"And", "Or", "Imply", "POrdProof"}, x \in Props : U = <<c, T, x>> \/ U = <<c, x, T>>

\* C3 as stated: new issues POrdProof<T, U> only where T is an operand of the
\* compound U, or for the conventional pair of True and False.
C3_OperandThenCompound ==
    last.op = "new" =>
        OperandOf(last.out[1], last.out[2]) \/ last.out = <<True, False>>

\* C3, amended: new issues POrdProof<T, U> exactly where T is the compound of a
\* binary connective (And, Or, Imply, POrdProof) and U is its left or right operand,
\* the only other pair being POrdProof<True, False>.
C3_CompoundThenOperand ==
    /\ last.op = "new" =>
           OperandOf(last.out[2], last.out[1]) \/ last.out = <<True, False>>
    /\ \A T \in Props, U \in Props :
           OperandOf(U, T) \/ <<T, U>> = <<True, False>> => POrd(T, U)

C3_Witness == last.op = "new" /\ last.out = <<Or(A0, False), False>>

\* C4: new never yields a cyclic proof POrdProof<T, T>.
C4_NewNeverCyclic == last.op = "new" => last.out[1] # last.out[2]

C4_Witness == last.op = "new" /\ last.out = <<And(And(A0, A0), A0), And(A0, A0)>>

\* C5: by_eq_left on POrdProof<T, U> with Eq<T, V> yields POrdProof<V, U>, and
\* by_eq_right on POrdProof<T, U> with Eq<U, V> yields POrdProof<T, V>.
C5_TransportReplacesNamedArgument ==
    /\ last.op = "by_eq_left" => last.out = <<last.eq[2], last.in[2]>>
    /\ last.op = "by_eq_right" => last.out = <<last.in[1], last.eq[2]>>

\* C21: when every Eq proof held comes from eq::refl, eq::commute and
\* eq::transitivity and every POrdProof held from new, transitivity, by_eq_left,
\* by_eq_right and clone, no POrdProof<T, T> is held.
C21_PathOrderIrreflexive ==
    /\ eqs \subseteq EqClosure({})
    /\ pord \subseteq POrdClosure({}, EqClosure({}))
    => \A p \in pord : p[1] # p[2]

(***************************************************************************)
(* Proof assembly with the functional algebra (fun.rs) and the tactics for *)
(* logical EQ (eq.rs).  A tactic whose body is unimplemented!() is a       *)
(* trusted axiom: its signature is the inference rule.                     *)
(***************************************************************************)
F0 == <<"F">>
G0 == <<"G">>
B0 == <<"B">>
C0 == <<"C">>
D0 == <<"D">>
X0 == <<"X">>

App(F, X) == <<"App", F, X>>
Inv(F) == <<"Inv", F>>
Subst(E, A, B) == <<"Subst", E, A, B>>
Lam(X, Y) == <<"Lam", X, Y>>
IsConst(A) == <<"IsConst", A>>
Qu(A) == <<"Qu", A>>
\* x : T, a pair of an implication and a path-order proof (fun.rs, type_ty).
Ty(A, T) == And(Imply(A, T), POrdProof(A, T))
\* f ~~ g, an equality with a qubit witness for each side (fun.rs, q_inv).
Q(F, G) == And(Eq(F, G), And(Qu(F), Qu(G)))

IsEq(t) ==
    /\ Len(t) = 3 /\ t[1] = "And"
    /\ Len(t[2]) = 3 /\ t[2][1] = "Imply"
    /\ t[3] = Imply(t[2][3], t[2][2])
EqLeft(t) == t[2][2]
EqRight(t) == t[2][3]

\* The number of proofs an assembly holds at most.
MaxProofs == 7

\* The result types of the substitution axioms.
SubstTrivialTy(A, B) == Eq(Subst(A, A, B), B)
SubstConstTy(A, B, C) == Eq(Subst(A, B, C), A)
SubstLamTy(A, B, C, D, X) ==
    Eq(Subst(Lam(Ty(A, X), B), C, D),
       Lam(Ty(A, Subst(X, C, D)), Subst(Subst(B, C, D), A, C)))
\* The result type of inv_val_qu and of inv_val.
InvValTy(F, A, B) == Eq(App(Inv(F), B), A)

\* A tactic that took proofs of the types `ins` returns a proof of the type `out`.
Derive(tactic, ins, out) ==
    /\ Cardinality(proofs \cup {out}) <= MaxProofs
    /\ proofs' = proofs \cup {out}
    /\ step' = [tactic |-> tactic, targs |-> <<>>, ins |-> ins, out |-> out]
    /\ UNCHANGED <<hyps, notAssembly>>

\* fun.rs: a[a := b] == b.
SubstTrivial(A, B) ==
    /\ Derive("subst_trivial", {}, SubstTrivialTy(A, B))

\* fun.rs: is_const(a) => (a[b := c] == a).
SubstConst(A, B, C) ==
    /\ IsConst(A) \in proofs
    /\ Derive("subst_const", {IsConst(A)}, SubstConstTy(A, B, C))

\* fun.rs: subst_lam, which takes no argument.
SubstLam(A, B, C, D, X) ==
    /\ Derive("subst_lam", {}, SubstLamTy(A, B, C, D, X))

\* fun.rs: subst_lam_const, from the equation of subst_lam to is_const(a).
SubstLamConst(A, B, C, D, X) ==
    /\ SubstLamTy(A, B, C, D, X) \in proofs
    /\ Derive("subst_lam_const", {SubstLamTy(A, B, C, D, X)}, IsConst(A))

\* fun.rs: inv_val_qu.
InvValQu(F, A, B) ==
    /\ Qu(Inv(F)) \in proofs /\ Eq(App(F, A), B) \in proofs
    /\ Derive("inv_val_qu", {Qu(Inv(F)), Eq(App(F, A), B)}, InvValTy(F, A, B))

\* fun.rs: inv_val, which takes the qubit witness of Inv<F> out of a Q<Inv<F>, G>.
InvVal(F, G, A, B) ==
    /\ Q(Inv(F), G) \in proofs /\ Eq(App(F, A), B) \in proofs
    /\ Derive("inv_val", {Q(Inv(F), G), Eq(App(F, A), B)}, InvValTy(F, A, B))

\* eq.rs: commute, transitivity, is_true, is_false.
Commute(x) ==
    /\ x \in proofs /\ IsEq(x)
    /\ Derive("commute", {x}, Eq(EqRight(x), EqLeft(x)))
EqTrans(x, y) ==
    /\ x \in proofs /\ y \in proofs
    /\ IsEq(x) /\ IsEq(y) /\ EqRight(x) = EqLeft(y)
    /\ Derive("transitivity", {x, y}, Eq(EqLeft(x), EqRight(y)))
IsTrue(x) ==
    /\ x \in proofs /\ IsEq(x) /\ EqLeft(x) = True
    /\ Derive("is_true", {x}, EqRight(x))
IsFalse(x) ==
    /\ x \in proofs /\ IsEq(x) /\ EqLeft(x) = False
    /\ Derive("is_false", {x}, Not(EqRight(x)))

\* The instantiations <<A, C>> of the substitution axioms: A is substituted, C is put.
SubstPairs == {<<True, False>>, <<App(Inv(F0), B0), A0>>}
\* An assembly starts from the assumptions of the proof being built.
InitAssembly ==
    /\ hyps \in { {},
                  {Eq(App(F0, A0), B0)},
                  {Eq(App(F0, A0), B0), Qu(Inv(F0))},
                  {Eq(App(F0, A0), B0), Q(Inv(F0), G0)} }
    /\ proofs = hyps
    /\ step = [tactic |-> "none", targs |-> <<>>, ins |-> {}, out |-> <<>>]
    /\ PathIdle
    /\ RunIdle
    /\ CompIdle

NextAssembly ==
    \/ \E p \in SubstPairs : SubstTrivial(p[1], p[2])
    \/ \E p \in SubstPairs : SubstConst(p[1], p[1], p[2])
    \/ \E p \in SubstPairs : SubstLam(p[1], B0, C0, D0, X0)
    \/ \E p \in SubstPairs : SubstLamConst(p[1], B0, C0, D0, X0)
    \/ InvValQu(F0, A0, B0)
    \/ InvVal(F0, G0, A0, B0)
    \/ \E x \in proofs : Commute(x)
    \/ \E x \in proofs, y \in proofs : EqTrans(x, y)
    \/ \E x \in proofs : IsTrue(x)
    \/ \E x \in proofs : IsFalse(x)

SpecAssembly == InitAssembly /\ [][NextAssembly]_vars

(***************************************************************************)
(* Claims about proof assembly.                                            *)
(***************************************************************************)
\* C1: from no assumptions, no sequence of tactics and trusted axioms yields a
\* proof of False (as is_true would from an Eq<True, False>).
C1_NoProofOfFalse == hyps = {} => False \notin proofs

\* C9: the inverse equation Eq<App<Inv<F>, B>, A> is held only if a quality witness
\* for Inv<F> was supplied: a Qu<Inv<F>> or a Q<Inv<F>, G>.
C9_InverseNeedsQuality ==
    InvValTy(F0, A0, B0) \in proofs =>
        Qu(Inv(F0)) \in proofs \/ Q(Inv(F0), G0) \in proofs

\* C10: subst_lam is applied only with an IsConst witness among its inputs.
C10_SubstLamTakesIsConst ==
    step.tactic = "subst_lam" => \E t \in step.ins : t[1] = "IsConst"

(***************************************************************************)
(* Proof values at run time.  An implication is an Rc<dyn Fn>: either a    *)
(* sub-proof supplied by the caller, of which only the allocation is known *)
(* (its application is kept as a symbolic term), or a closure built by a   *)
(* tactic, identified by the tactic that built it and what it captured.    *)
(***************************************************************************)
\* The number of distinct proof values of one proposition supplied as arguments.
NumVals == 2
\* The number of distinct witnesses of one implication supplied to comp.
NumVersions == 2

Val(name, n) == <<"val", name, n>>
Rc(id) == <<"rc", id>>
Closure(kind, capt) == <<"fn", kind, capt>>
Tactic(t) == <<"tactic", t>>
Pair(x, y) == <<"pair", x, y>>
LeftV(x) == <<"Left", x>>
RightV(x) == <<"Right", x>>
POrdProofV == <<"POrdProof">>
PSemArg(e, pr, i1, i2) == Pair(Pair(e, pr), Pair(i1, i2))

\* The outcomes of a call other than a value: a panic, and the use of a freed allocation.
Panic == <<"panic">>
Dangling == <<"dangling">>
Bad(v) == v \in {Panic, Dangling}

\* unimplemented!() panics when it is reached.
Unimplemented == Panic
AppToComp(x) == Unimplemented
CompToApp(x) == Unimplemented
CompInvToInvComp(x) == Unimplemented
InvCompToCompInv(x) == Unimplemented
CompAssoc == Unimplemented
CompIdLeft == Unimplemented
CompIdRight == Unimplemented
EqAppComp == Pair(Closure("eq_app_comp.0", <<>>), Closure("eq_app_comp.1", <<>>))
CompInv == Pair(Closure("comp_inv.0", <<>>), Closure("comp_inv.1", <<>>))

\* A call whose arguments are evaluated first, from left to right: the first
\* argument that panics is the outcome of the call.
FirstBad(args) ==
    LET bad == {i \in DOMAIN args : Bad(args[i])}
    IN  IF bad = {} THEN None ELSE args[CHOOSE i \in bad : \A j \in bad : i <= j]
Strict(name, args) ==
    IF FirstBad(args) # None THEN FirstBad(args) ELSE <<"ret", name, args>>
Norm1Comp ==
    LET y == Strict("eq::transitivity",
                 <<Strict("comp_eq_left", <<CompAssoc>>), Strict("eq::symmetry", <<CompAssoc>>)>>)
    IN  Strict("eq::transitivity",
            <<Strict("eq::transitivity", <<y, Strict("comp_eq_right", <<CompInv>>)>>),
              Strict("comp_eq_left", <<CompAssoc>>)>>)

TacticBody(t) ==
    CASE t = "comp_assoc" -> CompAssoc
      [] t = "comp_id_left" -> CompIdLeft
      [] t = "comp_id_right" -> CompIdRight
      [] t = "eq_app_comp" -> EqAppComp
      [] t = "norm1_comp" -> Norm1Comp

\* The closure comp returns: what it hands to f and to g.  CompFArgFromCaller is
\* the variant that hands its own argument on to f.
CompFArgFromCaller(k, x) == x
CompFArg(k, x) == PSemArg(x[2][2], k.pr_f1_f3, k.f1_f3, k.f2_f4)
\* CompGArgOfF is the variant that hands g what was captured for f.
CompGArgOfF(k, f3_eq_f4) == PSemArg(f3_eq_f4, k.pr_f1_f3, k.f1_f3, k.f2_f4)
CompGArg(k, f3_eq_f4) == PSemArg(f3_eq_f4, k.pr_f3_x1, k.f3_x1, k.f4_x2)

\* The PSem instance comp returns.
PSemComp(f, g, wf, wg) ==
    Closure("comp", [f |-> f, g |-> g, pr_f1_f3 |-> POrdProofV, pr_f3_x1 |-> POrdProofV,
                     f1_f3 |-> wf[1], f2_f4 |-> wf[2], f3_x1 |-> wg[1], f4_x2 |-> wg[2]])

\* The outcome of calling implication c on x when the allocations in dead are freed.
RECURSIVE Call(_, _, _)
Call(c, x, dead) ==
    IF c[1] = "rc"
    THEN IF c[2] \in dead THEN Dangling ELSE <<"call", c[2], x>>
    ELSE CASE c[2] = "from_de_morgan.0" -> Call(c[3][1], LeftV(x), dead)
           [] c[2] = "from_de_morgan.1" -> Call(c[3][1], RightV(x), dead)
           [] c[2] = "to_de_morgan" ->
                IF x[1] = "Left" THEN Call(c[3][1], x[2], dead) ELSE Call(c[3][2], x[2], dead)
           [] c[2] = "to_imply" ->
                LET b == Call(x, c[3][1], dead)
                IN  IF Bad(b) THEN b ELSE Call(c[3][2], b, dead)
           [] c[2] = "comp" ->
                LET f3_eq_f4 == Call(c[3].f, CompFArg(c[3], x), dead)
                IN  IF Bad(f3_eq_f4) THEN f3_eq_f4
                    ELSE Call(c[3].g, CompGArg(c[3], f3_eq_f4), dead)
           [] c[2] = "transitivity.0" ->
                LET b == Call(c[3][1], x, dead)
                IN  IF Bad(b) THEN b ELSE Call(c[3][2], b, dead)
           [] c[2] = "transitivity.1" ->
                LET b == Call(c[3][2], x, dead)
                IN  IF Bad(b) THEN b ELSE Call(c[3][1], b, dead)
           [] c[2] = "eq_app_comp.0" -> AppToComp(x)
           [] c[2] = "eq_app_comp.1" -> CompToApp(x)
           [] c[2] = "comp_inv.0" -> CompInvToInvComp(x)
           [] c[2] = "comp_inv.1" -> InvCompToCompInv(x)

\* The allocations a closure holds a handle to.
CaptList(c) ==
    IF c[2] = "comp"
    THEN <<c[3].f, c[3].g, c[3].f1_f3, c[3].f2_f4, c[3].f3_x1, c[3].f4_x2>>
    ELSE c[3]
Handles(c) ==
    {CaptList(c)[i][2] : i \in {j \in DOMAIN CaptList(c) : CaptList(c)[j][1] = "rc"}}

\* The arguments a closure is invoked on.
ArgsOf(c) ==
    CASE c[2] = "from_de_morgan.0" -> {Val("a", n) : n \in 1..NumVals}
      [] c[2] = "from_de_morgan.1" -> {Val("b", n) : n \in 1..NumVals}
      [] c[2] = "to_de_morgan" ->
            {LeftV(Val("a", n)) : n \in 1..NumVals} \cup {RightV(Val("b", n)) : n \in 1..NumVals}
      [] c[2] = "to_imply" -> {Rc(Given("ab"))}
      [] c[2] = "comp" ->
            {PSemArg(Val("e", n), POrdProofV, Rc(Given("f1_x1")), Rc(Given("f2_x2"))) : n \in 1..NumVals}
      [] OTHER -> {Val("x", 1)}

(***************************************************************************)
(* The tactics of and.rs and eq.rs as functions from proof values to proof *)
(* values.                                                                 *)
(***************************************************************************)
\* and::symmetry, and::assoc and and::rev_assoc.  AssocSwapped is the variant of
\* assoc that exchanges the first two components.
SymmetryV(p) == Pair(p[3], p[2])
AssocSwapped(p) == Pair(p[2][3], Pair(p[2][2], p[3]))
AssocV(p) == Pair(p[2][2], Pair(p[2][3], p[3]))
RevAssocV(p) == Pair(Pair(p[2], p[3][2]), p[3][3])

\* and::distrib and and::rev_distrib.  DistribLeft is the variant of distrib that
\* returns Left whatever the disjunction holds.
DistribLeft(p) == LeftV(Pair(p[2], p[3][2]))
DistribV(p) ==
    IF p[3][1] = "Left" THEN LeftV(Pair(p[2], p[3][2])) ELSE RightV(Pair(p[2], p[3][2]))
RevDistribV(q) ==
    IF q[1] = "Left" THEN Pair(q[2][2], LeftV(q[2][3])) ELSE Pair(q[2][2], RightV(q[2][3]))

\* and::to_de_morgan and and::from_de_morgan.  ToDeMorganSwapped is the variant of
\* to_de_morgan that matches Left with f1 and Right with f0.
ToDeMorganSwapped(p) == Closure("to_de_morgan", <<p[3], p[2]>>)
ToDeMorganV(p) == Closure("to_de_morgan", <<p[2], p[3]>>)
FromDeMorganV(f) == Pair(Closure("from_de_morgan.0", <<f>>), Closure("from_de_morgan.1", <<f>>))
\* and::false_arg.
FalseArgV(p) == p[2]

\* eq::transitivity and eq::commute.  TransitivityFwd is the variant of transitivity
\* whose second closure chains f1 and g1 in the order of the first.
TransitivityFwd(p, q) ==
    Pair(Closure("transitivity.0", <<p[2], q[2]>>), Closure("transitivity.1", <<q[3], p[3]>>))
TransitivityV(p, q) ==
    Pair(Closure("transitivity.0", <<p[2], q[2]>>), Closure("transitivity.1", <<p[3], q[3]>>))
CommuteV(p) == Pair(p[3], p[2])
\* eq::is_true and eq::is_false.  IsTrueBwd is the variant of is_true that applies
\* the second component.
TrueV == Val("True", 1)
IsTrueBwd(p) == Call(p[3], TrueV, {})
IsTrueV(p) == Call(p[2], TrueV, {})
IsFalseV(p) == p[3]

(***************************************************************************)
(* Building, invoking and dropping closures.                               *)
(***************************************************************************)
\* The strong count of f after from_de_morgan: f is moved into the first closure
\* and its clone f2 into the second.  FromDeMorganNoClone is the variant in which
\* both closures use the one handle.
FromDeMorganNoClone(n) == n
FromDeMorganStrong(n) == n + 1

\* A tactic that takes the sub-proofs ids by value and returns the closures cs.
Build(t, ids, cs, out) ==
    /\ ids \subseteq held
    /\ held' = held \ ids
    /\ env' = env \cup cs
    /\ res' = [fn |-> Tactic(t), arg |-> <<>>, out |-> out, rc |-> strong']

FromDeMorgan ==
    LET v == FromDeMorganV(Rc(Given("f")))
    IN  /\ strong' = [strong EXCEPT ![Given("f")] = FromDeMorganStrong(@)]
        /\ Build("from_de_morgan", {Given("f")}, {v[2], v[3]}, v)
        /\ UNCHANGED notRun

ToDeMorgan ==
    LET c == ToDeMorganV(Pair(Rc(Given("f0")), Rc(Given("f1"))))
    IN  /\ strong' = strong
        /\ Build("to_de_morgan", {Given("f0"), Given("f1")}, {c}, c)
        /\ UNCHANGED notRun

ToImply(a) ==
    LET c == Closure("to_imply", <<a, Rc(Given("nb"))>>)
    IN  /\ strong' = strong
        /\ Build("to_imply", {Given("nb")}, {c}, c)
        /\ UNCHANGED notRun

Comp ==
    LET c == PSemComp(Rc(Given("pf")), Rc(Given("pg")),
                      <<Rc(Given("f1_f3")), Rc(Given("f2_f4"))>>,
                      <<Rc(Given("f3_x1")), Rc(Given("f4_x2"))>>)
    IN  /\ strong' = strong
        /\ Build("comp", {Given("pf"), Given("pg"), Given("f1_f3"), Given("f2_f4"),
                          Given("f3_x1"), Given("f4_x2")}, {c}, c)
        /\ UNCHANGED notRun

\* A tactic of fun.rs that takes no argument.
CallTactic(t) ==
    /\ env' = env \cup (LET v == TacticBody(t) IN IF v[1] = "pair" THEN {v[2], v[3]} ELSE {})
    /\ res' = [fn |-> Tactic(t), arg |-> <<>>, out |-> TacticBody(t), rc |-> strong]
    /\ UNCHANGED <<held, strong, notRun>>

\* The caller invokes a closure it holds.  The closure is called by reference and
\* the clones its body makes (nb.clone(), f1_f3.clone(), ...) are dropped when the
\* call returns, so the counts are as before.
Invoke(c, x) ==
    /\ c \in env
    /\ res' = [fn |-> c, arg |-> x, rc |-> strong,
               out |-> Call(c, x, {id \in GivenIds : strong[id] = 0})]
    /\ UNCHANGED <<env, held, strong, notRun>>

\* The caller drops a closure it holds, which drops each handle it captured.
Drop(c) ==
    /\ c \in env
    /\ env' = env \ {c}
    /\ strong' = [id \in GivenIds |->
                     IF id \in Handles(c) /\ strong[id] > 0 THEN strong[id] - 1 ELSE strong[id]]
    /\ UNCHANGED <<held, res, notRun>>

InitRun ==
    /\ env = {}
    /\ held = GivenIds
    /\ strong = [id \in GivenIds |-> 1]
    /\ res = NoRes
    /\ PathIdle
    /\ AssemblyIdle
    /\ CompIdle

NextRun ==
    \/ FromDeMorgan
    \/ ToDeMorgan
    \/ \E n \in 1..NumVals : ToImply(Val("a", n))
    \/ Comp
    \/ \E t \in {"comp_assoc", "comp_id_left", "comp_id_right", "eq_app_comp", "norm1_comp"} :
         CallTactic(t)
    \/ \E c \in env : \E x \in ArgsOf(c) : Invoke(c, x)
    \/ \E c \in env : Drop(c)

SpecRun == InitRun /\ [][NextRun]_vars

(***************************************************************************)
(* Claims about proof values at run time.                                  *)
(***************************************************************************)
\* C6: no call of a tactic, and no invocation of a closure a tactic returned,
\* ends in a run-time failure.
C6_NoRuntimeFailure == res.out # Panic

SharingKinds == {"from_de_morgan.0", "from_de_morgan.1", "to_de_morgan", "to_imply", "comp"}

\* C8: the closures returned by from_de_morgan, to_de_morgan, to_imply and comp
\* never leave a captured sub-proof freed while they are held, an invocation gives
\* what it would give with every captured sub-proof intact, whatever was invoked or
\* dropped before, and the two closures of from_de_morgan delegate to the one f.
C8_SharedCapturesStayUsable ==
    /\ \A c \in env : c[2] \in SharingKinds => \A id \in Handles(c) : strong[id] > 0
    /\ res.fn[1] = "fn" /\ res.fn[2] \in SharingKinds =>
            /\ ~Bad(res.out)
            /\ res.out = Call(res.fn, res.arg, {})
    /\ res.fn[1] = "fn" /\ res.fn[2] = "from_de_morgan.0" =>
            res.out = <<"call", Given("f"), LeftV(res.arg)>>
    /\ res.fn[1] = "fn" /\ res.fn[2] = "from_de_morgan.1" =>
            res.out = <<"call", Given("f"), RightV(res.arg)>>

\* The second closure of from_de_morgan is invoked after the first was dropped.
C8_Witness ==
    /\ res.fn = Closure("from_de_morgan.1", <<Rc(Given("f"))>>)
    /\ res.rc[Given("f")] = 1
    /\ res.out = <<"call", Given("f"), RightV(Val("b", 2))>>

(***************************************************************************)
(* The tactics of and.rs and eq.rs applied to proof values: the caller     *)
(* holds the arguments of one scenario and applies tactics to the values   *)
(* it holds.  Nothing is dropped, so every supplied sub-proof stays alive. *)
(***************************************************************************)
\* The number of proof values the caller derives at most.
MaxDerived == 2

\* The tactics of one argument and the shape of the proof each takes.
Takes(t, p) ==
    LET IsFn(v) == v[1] \in {"rc", "fn"}
        IsEqV(v) == v[1] = "pair" /\ IsFn(v[2]) /\ IsFn(v[3])
    IN  CASE t \in {"symmetry", "false_arg"} -> p[1] = "pair"
          [] t = "assoc" -> p[1] = "pair" /\ p[2][1] = "pair"
          [] t = "rev_assoc" -> p[1] = "pair" /\ p[3][1] = "pair"
          [] t = "distrib" -> p[1] = "pair" /\ p[3][1] \in {"Left", "Right"}
          [] t = "rev_distrib" -> p[1] \in {"Left", "Right"} /\ p[2][1] = "pair"
          [] t = "from_de_morgan" -> IsFn(p)
          [] t \in {"to_de_morgan", "commute", "is_true", "is_false"} -> IsEqV(p)
TacticV(t, p) ==
    CASE t = "symmetry" -> SymmetryV(p)
      [] t = "assoc" -> AssocV(p)
      [] t = "rev_assoc" -> RevAssocV(p)
      [] t = "distrib" -> DistribV(p)
      [] t = "rev_distrib" -> RevDistribV(p)
      [] t = "to_de_morgan" -> ToDeMorganV(p)
      [] t = "from_de_morgan" -> FromDeMorganV(p)
      [] t = "false_arg" -> FalseArgV(p)
      [] t = "commute" -> CommuteV(p)
      [] t = "is_true" -> IsTrueV(p)
      [] t = "is_false" -> IsFalseV(p)

\* The caller applies tactic t to the proof value x and holds what it returns.
Returns(t, x, v) ==
    /\ Cardinality((env \cup {v}) \ held) <= MaxDerived
    /\ env' = env \cup {v}
    /\ res' = [fn |-> Tactic(t), arg |-> x, out |-> v, rc |-> strong]
    /\ UNCHANGED <<held, strong, notRun>>

Apply(t, p) ==
    /\ p \in env
    /\ Takes(t, p)
    /\ Returns(t, p, TacticV(t, p))

ApplyTransitivity(p, q) ==
    /\ p \in env /\ q \in env
    /\ Takes("commute", p) /\ Takes("commute", q)
    /\ Returns("transitivity", Pair(p, q), TransitivityV(p, q))

\* The arguments of each scenario: a nested conjunction, a conjunction with a
\* disjunction and its distribution, two negations, two equalities that chain,
\* an equality with True or False and a conjunction with False.
InitVal ==
    /\ env \in {{Pair(Pair(Val("a", n), Val("b", 1)), Val("c", 1))} : n \in 1..NumVals}
           \cup {{Pair(Val("a", n), Pair(Val("b", 1), Val("c", 1)))} : n \in 1..NumVals}
           \cup {{Pair(Val("a", n), LeftV(Val("b", 1)))} : n \in 1..NumVals}
           \cup {{Pair(Val("a", n), RightV(Val("c", 1)))} : n \in 1..NumVals}
           \cup {{LeftV(Pair(Val("a", n), Val("b", 1)))} : n \in 1..NumVals}
           \cup {{RightV(Pair(Val("a", n), Val("c", 1)))} : n \in 1..NumVals}
           \cup {{Pair(Rc(Given("f0")), Rc(Given("f1")))},
                 {Pair(Rc(Given("p0")), Rc(Given("p1"))),
                  Pair(Rc(Given("q0")), Rc(Given("q1")))},
                 {Pair(Rc(Given("t0")), Rc(Given("t1")))},
                 {Pair(Val("false", 1), Val("a", 1))}}
    /\ held = env
    /\ strong = [id \in GivenIds |-> 0]
    /\ res = NoRes
    /\ PathIdle
    /\ AssemblyIdle
    /\ CompIdle

NextVal ==
    \/ \E t \in {"symmetry", "assoc", "rev_assoc", "distrib", "rev_distrib", "to_de_morgan",
                  "from_de_morgan", "false_arg", "commute", "is_true", "is_false"} :
         \E p \in env : Apply(t, p)
    \/ \E p \in env, q \in env : ApplyTransitivity(p, q)

SpecVal == InitVal /\ [][NextVal]_vars

(***************************************************************************)
(* Claims about the tactics of and.rs and eq.rs on proof values.           *)
(***************************************************************************)
\* A tactic was applied to what another tactic returned for the held proof p.
After(t, u, p) == res.fn = Tactic(t) /\ Takes(u, p) /\ res.arg = TacticV(u, p)

\* C15: the two negations from_de_morgan returns for to_de_morgan(p) agree with the
\* first component of p on every proof of A and with the second on every proof of B.
C15_DeMorganRoundTrip ==
    \A p \in env : After("from_de_morgan", "to_de_morgan", p) =>
        \A n \in 1..NumVals :
            /\ Call(res.out[2], Val("a", n), {}) = Call(p[2], Val("a", n), {})
            /\ Call(res.out[3], Val("b", n), {}) = Call(p[3], Val("b", n), {})

C15_Witness ==
    /\ res.fn = Tactic("from_de_morgan")
    /\ res.arg = ToDeMorganV(Pair(Rc(Given("f0")), Rc(Given("f1"))))
    /\ res.arg \in env \ held
    /\ Call(res.out[3], Val("b", 2), {}) = <<"call", Given("f1"), Val("b", 2)>>

\* C16: rev_distrib(distrib(p)) = p, distrib(rev_distrib(q)) = q, and both keep the
\* Left/Right tag of the disjunction.
C16_DistribInverse ==
    /\ \A p \in env : After("rev_distrib", "distrib", p) => res.out = p
    /\ \A q \in env : After("distrib", "rev_distrib", q) => res.out = q
    /\ res.fn = Tactic("distrib") => res.out[1] = res.arg[3][1]
    /\ res.fn = Tactic("rev_distrib") => res.out[3][1] = res.arg[1]

C16_Witness ==
    /\ res.fn = Tactic("rev_distrib")
    /\ res.arg = RightV(Pair(Val("a", 2), Val("c", 1)))
    /\ res.arg \in env \ held
    /\ res.out = Pair(Val("a", 2), RightV(Val("c", 1)))
    /\ res.out \in held

\* C17: symmetry(symmetry(p)) = p, rev_assoc(assoc(p)) = p and assoc(rev_assoc(q)) = q.
C17_AndStructuralInverse ==
    \A p \in env :
        /\ After("symmetry", "symmetry", p) => res.out = p
        /\ After("rev_assoc", "assoc", p) => res.out = p
        /\ After("assoc", "rev_assoc", p) => res.out = p

C17_Witness ==
    /\ res.fn = Tactic("rev_assoc")
    /\ res.arg = Pair(Val("a", 2), Pair(Val("b", 1), Val("c", 1)))
    /\ res.arg \in env \ held
    /\ res.out = Pair(Pair(Val("a", 2), Val("b", 1)), Val("c", 1))
    /\ res.out \in held

\* C18: commute(transitivity(p, q)) and transitivity(commute(q), commute(p)) return
\* the same value in each direction on every argument, and commute(commute(p)) = p.
C18_CommuteTransitivityAgree ==
    /\ \A p \in env, q \in env :
            /\ res.fn = Tactic("commute")
            /\ Takes("commute", p) /\ Takes("commute", q)
            /\ res.arg = TransitivityV(p, q)
            => LET r == TransitivityV(CommuteV(q), CommuteV(p))
               IN  \A n \in 1..NumVals :
                       /\ Call(res.out[2], Val("c", n), {}) = Call(r[2], Val("c", n), {})
                       /\ Call(res.out[3], Val("a", n), {}) = Call(r[3], Val("a", n), {})
    /\ \A p \in env : After("commute", "commute", p) => res.out = p

C18_Witness ==
    /\ res.fn = Tactic("commute")
    /\ res.arg = TransitivityV(Pair(Rc(Given("p0")), Rc(Given("p1"))),
                               Pair(Rc(Given("q0")), Rc(Given("q1"))))
    /\ res.arg \in env \ held
    /\ Call(res.out[2], Val("c", 1), {}) =
            <<"call", Given("p1"), <<"call", Given("q1"), Val("c", 1)>>>>
    /\ Call(res.out[3], Val("a", 1), {}) =
            <<"call", Given("q0"), <<"call", Given("p0"), Val("a", 1)>>>>

\* C19: is_true returns the first component applied to the trivial proof, is_false
\* returns the second component itself and false_arg returns the first component.
C19_BoundaryProjections ==
    /\ res.fn = Tactic("is_true") /\ res.arg[2][1] = "rc" =>
            res.out = <<"call", res.arg[2][2], Val("True", 1)>>
    /\ res.fn = Tactic("is_false") => res.out = res.arg[3]
    /\ res.fn = Tactic("false_arg") => res.out = res.arg[2]

C19_Witness ==
    /\ res.fn = Tactic("is_true")
    /\ res.arg = Pair(Rc(Given("t0")), Rc(Given("t1")))
    /\ res.out = <<"call", Given("t0"), Val("True", 1)>>

(***************************************************************************)
(* Composition of PSem instances f, g and h: (f . g) . h and f . (g . h).  *)
(***************************************************************************)
\* The two implications comp takes for one of its instances, in version v.
WitPair(n1, n2, v) == <<Rc(<<n1, v>>), Rc(<<n2, v>>)>>

\* The implications a caller passes in the argument of a composite.
CallerImplies == {WitPair("f1_y1", "f2_y2", 1), WitPair("g1_y1", "g2_y2", 1)}

Compose(slot, f, g, wf, wg) ==
    /\ built[slot] = None
    /\ built' = [built EXCEPT ![slot] = PSemComp(f, g, wf, wg)]
    /\ UNCHANGED <<outs, notComp>>

InvokeComp(slot, x) ==
    /\ built[slot] # None
    /\ outs' = [outs EXCEPT ![slot] = [arg |-> x, out |-> Call(built[slot], x, {})]]
    /\ UNCHANGED <<built, notComp>>

InitComp ==
    /\ CompIdle
    /\ PathIdle
    /\ AssemblyIdle
    /\ RunIdle

NextComp ==
    \/ \E v \in 1..NumVersions, w \in 1..NumVersions :
         Compose("fg", Rc(Given("pf")), Rc(Given("pg")),
                 WitPair("f1_f3", "f2_f4", v), WitPair("f3_x1", "f4_x2", w))
    \/ \E v \in 1..NumVersions, w \in 1..NumVersions :
         Compose("gh", Rc(Given("pg")), Rc(Given("ph")),
                 WitPair("f3_x1", "f4_x2", v), WitPair("x1_y1", "x2_y2", w))
    \/ \E v \in 1..NumVersions, w \in 1..NumVersions :
         /\ built["fg"] # None
         /\ Compose("fg_h", built["fg"], Rc(Given("ph")),
                    WitPair("f1_x1", "f2_x2", v), WitPair("x1_y1", "x2_y2", w))
    \/ \E v \in 1..NumVersions, w \in 1..NumVersions :
         /\ built["gh"] # None
         /\ Compose("f_gh", Rc(Given("pf")), built["gh"],
                    WitPair("f1_f3", "f2_f4", v), WitPair("f3_y1", "f4_y2", w))
    \/ \E slot \in Composites, n \in 1..NumVals, w \in CallerImplies :
         InvokeComp(slot, PSemArg(Val("e", n), POrdProofV, w[1], w[2]))

SpecComp == InitComp /\ [][NextComp]_vars

(***************************************************************************)
(* Claims about composition.                                               *)
(***************************************************************************)
\* (f . g) . h and f . (g . h) were composed with the same implications for f, g and h.
SameWitnesses(l, r) ==
    LET fg == l[3].f[3]
        gh == r[3].g[3]
    IN  /\ fg.f1_f3 = r[3].f1_f3 /\ fg.f2_f4 = r[3].f2_f4
        /\ fg.f3_x1 = gh.f1_f3 /\ fg.f4_x2 = gh.f2_f4
        /\ l[3].f3_x1 = gh.f3_x1 /\ l[3].f4_x2 = gh.f4_x2

BothInvoked ==
    /\ built["fg_h"] # None
    /\ built["f_gh"] # None
    /\ SameWitnesses(built["fg_h"], built["f_gh"])
    /\ outs["fg_h"].out # None
    /\ outs["f_gh"].out # None
    /\ outs["fg_h"].arg = outs["f_gh"].arg

\* C7: when comp(comp(f, g), h) and comp(f, comp(g, h)) are composed with the same
\* witnesses and invoked on the same argument, they return the same value.
C7_CompAssociative == BothInvoked => outs["fg_h"].out = outs["f_gh"].out

\* Both composites, built with the second version of the witnesses, were invoked.
C7_Witness ==
    /\ BothInvoked
    /\ built["f_gh"][3].f1_f3 = Rc(<<"f1_f3", 2>>)
    /\ outs["fg_h"].out = outs["f_gh"].out
    /\ outs["fg_h"].out[1] = "call"

\* C22: the value a composite returns is g called on what f returns, each with
\* the proofs captured at composition, and it is the same for every argument
\* that has the same Eq<F1, F2> component, whatever its implications are.
C22_CompDependsOnEqOnly ==
    \A slot \in Composites :
        outs[slot].out # None =>
            LET k == built[slot][3]
                e == outs[slot].arg[2][2]
                f3_eq_f4 == Call(k.f, PSemArg(e, POrdProofV, k.f1_f3, k.f2_f4), {})
            IN  /\ outs[slot].out =
                        Call(k.g, PSemArg(f3_eq_f4, POrdProofV, k.f3_x1, k.f4_x2), {})
                /\ \A v \in CallerImplies, w \in CallerImplies :
                        Call(built[slot], PSemArg(e, POrdProofV, v[1], w[2]), {}) =
                            outs[slot].out

\* comp(comp(f, g), h), composed with the first version of every implication but
\* the second of h's, was invoked on an argument carrying the caller's other
\* pair of implications, which the value returned does not mention.
C22_Witness ==
    /\ built["fg_h"] # None
    /\ built["fg_h"][3].f3_x1 = Rc(<<"x1_y1", 2>>)
    /\ outs["fg_h"].arg =
            PSemArg(Val("e", 1), POrdProofV, Rc(Given("g1_y1")), Rc(Given("g2_y2")))
    /\ outs["fg_h"].out =
            <<"call", Given("ph"),
              PSemArg(<<"call", Given("pg"),
                        PSemArg(<<"call", Given("pf"),
                                  PSemArg(Val("e", 1), POrdProofV,
                                          Rc(<<"f1_f3", 1>>), Rc(<<"f2_f4", 1>>))>>,
                                POrdProofV, Rc(<<"f3_x1", 1>>), Rc(<<"f4_x2", 1>>))>>,
                      POrdProofV, Rc(<<"x1_y1", 2>>), Rc(<<"x2_y2", 2>>))>>

(***************************************************************************)
(* The functional algebra (fun.rs) at the level of types: the type each    *)
(* tactic returns for the types it is given, as its signature states it,   *)
(* and the type the body of a derived tactic has, as composed from the     *)
(* signatures of the tactics it calls.  A call whose argument types do not *)
(* fit gives IllTyped.                                                     *)
(***************************************************************************)
\* The number of proofs an assembly of the functional algebra derives at most.
MaxFunProofs == 4

IllTyped == <<"ill-typed">>

\* inv_val_qu: ~inv(f) and f(a) == b give inv(f)(b) == a.
InvValQuTy(q, y) ==
    IF /\ Len(q) = 2 /\ q[1] = "Qu" /\ Len(q[2]) = 2 /\ q[2][1] = "Inv"
       /\ IsEq(y) /\ Len(EqLeft(y)) = 3 /\ EqLeft(y)[1] = "App" /\ EqLeft(y)[2] = q[2][2]
    THEN InvValTy(q[2][2], EqLeft(y)[3], EqRight(y))
    ELSE IllTyped
\* inv_qu: ~f => ~inv(f).
InvQuTy(q) == IF Len(q) = 2 /\ q[1] = "Qu" THEN Qu(Inv(q[2])) ELSE IllTyped
\* involve_eq: inv(inv(f)) == f.
InvolveEqTy(F) == Eq(Inv(Inv(F)), F)
\* app_map_eq: f == g gives f(x) == g(x).  AppMapEqOnArg is the variant that
\* lifts the equality into the argument, as app_eq does.
AppMapEqOnArg(e, X) ==
    IF IsEq(e) THEN Eq(App(X, EqLeft(e)), App(X, EqRight(e))) ELSE IllTyped
AppMapEqTy(e, X) ==
    IF IsEq(e) THEN Eq(App(EqLeft(e), X), App(EqRight(e), X)) ELSE IllTyped
\* eq::in_left_arg: a == b and a == c give c == b.
InLeftArgTy(x, y) ==
    IF IsEq(x) /\ IsEq(y) /\ EqLeft(x) = EqLeft(y)
    THEN Eq(EqRight(y), EqRight(x))
    ELSE IllTyped

\* qu_to_app_eq: its declared type and the type of the body of its forward closure.
QuToAppEqTy(A, B, F) == Eq(Eq(App(F, A), B), Eq(App(Inv(F), B), A))
QuToAppEqFwdTy(A, B, F, y) == InvValQuTy(Qu(Inv(F)), y)

\* A tactic instantiated at the types `targs` took proofs of the types `ins` and
\* returns a proof of the type `out`.
DeriveFun(tactic, targs, ins, out) ==
    /\ ins \subseteq proofs
    /\ Cardinality((proofs \cup {out}) \ hyps) <= MaxFunProofs
    /\ proofs' = proofs \cup {out}
    /\ step' = [tactic |-> tactic, targs |-> targs, ins |-> ins, out |-> out]
    /\ UNCHANGED <<hyps, notAssembly>>

QuToAppEq(A, B, F) ==
    /\ DeriveFun("qu_to_app_eq", <<A, B, F>>, {Qu(Inv(F))}, QuToAppEqTy(A, B, F))
\* The forward closure of qu_to_app_eq, invoked on a proof of f(a) == b.
QuToAppEqFwd(A, B, F) ==
    /\ DeriveFun("qu_to_app_eq.0", <<A, B, F>>, {QuToAppEqTy(A, B, F), Eq(App(F, A), B)},
                 QuToAppEqFwdTy(A, B, F, Eq(App(F, A), B)))
\* The backward closure of qu_to_app_eq, invoked on a proof of inv(f)(b) == a:
\* eq::in_left_arg(inv_val_qu(inv_qu(x), y), app_map_eq(involve_eq())).
QuToAppEqBwd(A, B, F) ==
    /\ DeriveFun("qu_to_app_eq.1", <<A, B, F>>,
                 {QuToAppEqTy(A, B, F), Eq(App(Inv(F), B), A)},
                 InLeftArgTy(InvValQuTy(InvQuTy(Qu(Inv(F))), Eq(App(Inv(F), B), A)),
                             AppMapEqTy(InvolveEqTy(F), A)))

H0 == <<"H">>
Y0 == <<"Y">>
FComp(G, F) == <<"Comp", G, F>>
\* f[g1 -> g2] and f[g].
Norm1(F, G1, G2) == FComp(FComp(G2, F), Inv(G1))
SymNorm1(F, G) == Norm1(F, G, G)

\* comp_assoc: h . (g . f) == (h . g) . f.
CompAssocTy(F, G, H) == Eq(FComp(H, FComp(G, F)), FComp(FComp(H, G), F))
\* comp_inv: inv(f) . inv(g) == inv(g . f).  CompInvCovariant is the variant
\* that keeps the order of f and g under the inverse.
CompInvCovariant(F, G) == Eq(FComp(Inv(F), Inv(G)), Inv(FComp(F, G)))
CompInvTy(F, G) == Eq(FComp(Inv(F), Inv(G)), Inv(FComp(G, F)))
\* comp_eq_left: f == h gives f . g == h . g; comp_eq_right: g == h gives f . g == f . h.
CompEqLeftTy(x, G) ==
    IF IsEq(x) THEN Eq(FComp(EqLeft(x), G), FComp(EqRight(x), G)) ELSE IllTyped
CompEqRightTy(x, F) ==
    IF IsEq(x) THEN Eq(FComp(F, EqLeft(x)), FComp(F, EqRight(x))) ELSE IllTyped
\* eq::symmetry and eq::transitivity.
EqSymmetryTy(x) == IF IsEq(x) THEN Eq(EqRight(x), EqLeft(x)) ELSE IllTyped
EqTransTy(x, y) ==
    IF IsEq(x) /\ IsEq(y) /\ EqRight(x) = EqLeft(y)
    THEN Eq(EqLeft(x), EqRight(y))
    ELSE IllTyped

\* The type of the body of norm1_comp, each axiom at the instance the chain needs.
Norm1CompTy(F, G1, G2, G3, G4) ==
    LET y == EqTransTy(CompEqLeftTy(CompAssocTy(Inv(G1), FComp(G2, F), G4), Inv(G3)),
                       EqSymmetryTy(CompAssocTy(Inv(G3), Inv(G1), FComp(G4, FComp(G2, F)))))
    IN  EqTransTy(EqTransTy(y, CompEqRightTy(CompInvTy(G1, G3), FComp(G4, FComp(G2, F)))),
                  CompEqLeftTy(CompAssocTy(F, G2, G4), Inv(FComp(G3, G1))))

Norm1CompStep(F, G1, G2, G3, G4) ==
    /\ DeriveFun("norm1_comp", <<F, G1, G2, G3, G4>>, {}, Norm1CompTy(F, G1, G2, G3, G4))
\* sym_norm1_comp is norm1_comp with g1 = g2 and g3 = g4.
SymNorm1CompStep(F, G1, G2) ==
    /\ DeriveFun("sym_norm1_comp", <<F, G1, G2>>, {}, Norm1CompTy(F, G1, G1, G2, G2))

Pow(A, B) == <<"Pow", A, B>>
Tauto(A) == <<"Tauto", A>>
Tup(A, B) == <<"Tup", A, B>>
Snd == <<"Snd">>
\* The function extensionality type: DepFunTy<a, x, p> is (a : x) -> p(a), Tup3<a, b, c>
\* is Tup<a, Tup<b, c>> and FunExtAppEq is \(a : x) = (f(a) == g(a)) after two projections.
FunExtTy(F, G, X, Y, A) ==
    LET a == Tup(F, Tup(G, A))
        x == Tup(Pow(Y, X), Tup(Pow(Y, X), X))
        p == FComp(Lam(Ty(A, X), Eq(App(F, A), App(G, A))), FComp(Snd, Snd))
    IN  Pow(App(p, a), Ty(a, x))

\* The type parameters <<F, G, X, Y, A>> of a function extensionality type.
FunExtArgs(x) ==
    <<x[2][3][2], x[2][3][3][2], x[3][2][3][3][3], x[3][2][3][2][2], x[2][3][3][3]>>
IsFunExtTy(x) ==
    /\ Len(x) = 3 /\ x[1] = "Pow"
    /\ Len(x[2]) = 3 /\ Len(x[2][3]) = 3 /\ Len(x[2][3][3]) = 3
    /\ Len(x[3]) = 3 /\ Len(x[3][2]) = 3 /\ Len(x[3][2][3]) = 3
    /\ Len(x[3][2][3][2]) = 3 /\ Len(x[3][2][3][3]) = 3
    /\ LET t == FunExtArgs(x) IN x = FunExtTy(t[1], t[2], t[3], t[4], t[5])
IsTautoEq(t) == Len(t) = 2 /\ t[1] = "Tauto" /\ IsEq(t[2])

\* hooo::tauto_eq_symmetry and hooo::tauto_eq_transitivity.
TautoEqSymmetryTy(t) ==
    IF IsTautoEq(t) THEN Tauto(Eq(EqRight(t[2]), EqLeft(t[2]))) ELSE IllTyped
TautoEqTransitivityTy(t, u) ==
    IF IsTautoEq(t) /\ IsTautoEq(u) /\ EqRight(t[2]) = EqLeft(u[2])
    THEN Tauto(Eq(EqLeft(t[2]), EqRight(u[2])))
    ELSE IllTyped

\* fun_ext: (f == g)^true => fun_ext_ty(f, g).
FunExtSig(t, X, Y, A) ==
    IF IsTautoEq(t) THEN FunExtTy(EqLeft(t[2]), EqRight(t[2]), X, Y, A) ELSE IllTyped
\* fun_rev_ext: fun_ext_ty(f, g) => (f == g)^true.  FunRevExtSwapped is the
\* variant that returns the equality the other way round.
FunRevExtSwapped(x) ==
    IF IsFunExtTy(x) THEN Tauto(Eq(FunExtArgs(x)[2], FunExtArgs(x)[1])) ELSE IllTyped
FunRevExtSig(x) ==
    IF IsFunExtTy(x) THEN Tauto(Eq(FunExtArgs(x)[1], FunExtArgs(x)[2])) ELSE IllTyped
\* fun_ext_refl: fun_ext_ty(f, f).
FunExtReflSig(F, X, Y, A) == FunExtTy(F, F, X, Y, A)

FunExtStep(F, G, X, Y, A) ==
    /\ DeriveFun("fun_ext", <<F, G, X, Y, A>>, {Tauto(Eq(F, G))},
                 FunExtSig(Tauto(Eq(F, G)), X, Y, A))
FunRevExtStep(x) ==
    /\ IsFunExtTy(x)
    /\ DeriveFun("fun_rev_ext", FunExtArgs(x), {x}, FunRevExtSig(x))
FunExtReflStep(F, X, Y, A) ==
    /\ DeriveFun("fun_ext_refl", <<F, X, Y, A>>, {}, FunExtReflSig(F, X, Y, A))
\* fun_ext_symmetry: fun_ext(hooo::tauto_eq_symmetry(fun_rev_ext(x))).
FunExtSymmetryStep(x) ==
    /\ IsFunExtTy(x)
    /\ LET t == FunExtArgs(x)
       IN  DeriveFun("fun_ext_symmetry", t, {x},
                     FunExtSig(TautoEqSymmetryTy(FunRevExtSig(x)), t[3], t[4], t[5]))
\* fun_ext_transitivity: fun_ext(hooo::tauto_eq_transitivity(fun_rev_ext(x), fun_rev_ext(y))).
FunExtTransitivityStep(x, y) ==
    /\ IsFunExtTy(x) /\ IsFunExtTy(y)
    /\ LET t == FunExtArgs(x)
           u == FunExtArgs(y)
       IN  /\ t[2] = u[1] /\ t[3] = u[3] /\ t[4] = u[4] /\ t[5] = u[5]
           /\ DeriveFun("fun_ext_transitivity", <<t[1], t[2], u[2], t[3], t[4], t[5]>>,
                        {x, y},
                        FunExtSig(TautoEqTransitivityTy(FunRevExtSig(x), FunRevExtSig(y)),
                                  t[3], t[4], t[5]))

\* subst_eq: what its signature returns for a[c := d] == b.
SubstEqStep(x, E, F) ==
    /\ IsEq(x) /\ Len(EqLeft(x)) = 4 /\ EqLeft(x)[1] = "Subst"
    /\ DeriveFun("subst_eq", <<E, F>>, {x},
                 Eq(Subst(EqLeft(x), E, F), Subst(EqRight(x), EqLeft(x)[3], EqLeft(x)[4])))

\* The type parameters the tactics are instantiated at.
\* The core axiom of path semantics and its two forms for a conjunction
\* (path_semantics.rs).
PSem(F1, F2, X1, X2) ==
    Imply(And(And(Eq(F1, F2), POrdProof(F1, X1)), And(Imply(F1, X1), Imply(F2, X2))),
          Eq(X1, X2))
PAndFst(A, B, C, D) == Imply(And(Eq(And(A, B), C), Imply(C, D)), Eq(A, D))
PAndSnd(A, B, C, D) == Imply(And(Eq(And(A, B), C), Imply(C, D)), Eq(B, D))

\* The type parameters <<F1, F2, X1, X2>> of an instance of the core axiom.
PSemArgs(p) == <<EqLeft(p[2][2][2]), EqRight(p[2][2][2]), EqLeft(p[3]), EqRight(p[3])>>
IsPSem(p) ==
    /\ Len(p) = 3 /\ Len(p[2]) = 3 /\ Len(p[2][2]) = 3
    /\ IsEq(p[2][2][2]) /\ IsEq(p[3])
    /\ LET t == PSemArgs(p) IN p = PSem(t[1], t[2], t[3], t[4])
\* The type parameters <<A, B, C, D>> of a PAndFst or PAndSnd.
PAndArgs(p) ==
    <<EqLeft(p[2][2])[2], EqLeft(p[2][2])[3], EqRight(p[2][2]), EqRight(p[3])>>
IsPAnd(p) ==
    /\ Len(p) = 3 /\ Len(p[2]) = 3 /\ IsEq(p[2][2]) /\ IsEq(p[3])
    /\ Len(EqLeft(p[2][2])) = 3 /\ EqLeft(p[2][2])[1] = "And"

\* to_pand_fst takes a PSem<And<A, B>, C, A, D> and to_pand_snd a PSem<And<A, B>, C, B, D>.
ToPAndFstSig(p) ==
    LET t == PSemArgs(p)
    IN  IF IsPSem(p) /\ Len(t[1]) = 3 /\ p = PSem(And(t[3], t[1][3]), t[2], t[3], t[4])
        THEN PAndFst(t[3], t[1][3], t[2], t[4])
        ELSE IllTyped
ToPAndSndSig(p) ==
    LET t == PSemArgs(p)
    IN  IF IsPSem(p) /\ Len(t[1]) = 3 /\ p = PSem(And(t[1][2], t[3]), t[2], t[3], t[4])
        THEN PAndSnd(t[1][2], t[3], t[2], t[4])
        ELSE IllTyped
\* pand_join returns the core axiom with the conjunction on both levels.  PandJoinFst
\* is the variant that returns the instance to_pand_fst takes.
PandJoinFst(p1, p2) ==
    LET t == PAndArgs(p1)
    IN  IF IsPAnd(p1) /\ p1 = PAndFst(t[1], t[2], t[3], t[4])
                      /\ p2 = PAndSnd(t[1], t[2], t[3], t[4])
        THEN PSem(And(t[1], t[2]), t[3], t[1], t[4])
        ELSE IllTyped
PandJoinSig(p1, p2) ==
    LET t == PAndArgs(p1)
    IN  IF IsPAnd(p1) /\ p1 = PAndFst(t[1], t[2], t[3], t[4])
                      /\ p2 = PAndSnd(t[1], t[2], t[3], t[4])
        THEN PSem(And(t[1], t[2]), t[3], And(t[1], t[2]), t[4])
        ELSE IllTyped

\* A call of to_pand_fst or to_pand_snd on an instance of the core axiom; a call
\* on an instance of another shape is rejected.
ToPAndFstStep(p) ==
    /\ IsPSem(p)
    /\ DeriveFun("to_pand_fst", PSemArgs(p), {p}, ToPAndFstSig(p))
ToPAndSndStep(p) ==
    /\ IsPSem(p)
    /\ DeriveFun("to_pand_snd", PSemArgs(p), {p}, ToPAndSndSig(p))
PandJoinStep(p1, p2) ==
    /\ IsPAnd(p1) /\ IsPAnd(p2)
    /\ DeriveFun("pand_join", PAndArgs(p1), {p1, p2}, PandJoinSig(p1, p2))

InvArgs == {<<A0, B0, F0>>, <<A0, B0, Inv(F0)>>, <<B0, A0, F0>>}

\* An assembly of the functional algebra starts from the arguments of one tactic.
InitFun ==
    /\ hyps \in {{Eq(App(t[3], t[1]), t[2]), Qu(Inv(t[3]))} : t \in InvArgs}
               \cup {{},
                     {Tauto(Eq(F0, F0))},
                     {Tauto(Eq(F0, G0))},
                     {FunExtTy(F0, G0, X0, Y0, A0)},
                     {FunExtTy(F0, G0, X0, Y0, A0), FunExtTy(G0, H0, X0, Y0, A0)},
                     {Eq(Subst(A0, C0, D0), B0)},
                     {SubstTrivialTy(A0, B0)},
                     {PSem(And(A0, B0), C0, A0, D0), PSem(And(A0, B0), C0, B0, D0)}}
    /\ proofs = hyps
    /\ step = [tactic |-> "none", targs |-> <<>>, ins |-> {}, out |-> <<>>]
    /\ PathIdle
    /\ RunIdle
    /\ CompIdle

NextFun ==
    \/ \E t \in InvArgs : QuToAppEq(t[1], t[2], t[3])
    \/ \E t \in InvArgs : QuToAppEqFwd(t[1], t[2], t[3])
    \/ \E t \in InvArgs : QuToAppEqBwd(t[1], t[2], t[3])
    \/ \E t \in {<<F0, G0, H0, A0, B0>>, <<Inv(F0), G0, G0, H0, H0>>} :
         Norm1CompStep(t[1], t[2], t[3], t[4], t[5])
    \/ SymNorm1CompStep(F0, G0, H0)
    \/ \E F \in {F0, G0, H0}, G \in {F0, G0, H0} : FunExtStep(F, G, X0, Y0, A0)
    \/ \E x \in proofs : FunRevExtStep(x)
    \/ FunExtReflStep(F0, X0, Y0, A0)
    \/ \E x \in proofs : FunExtSymmetryStep(x)
    \/ \E x \in proofs, y \in proofs : FunExtTransitivityStep(x, y)
    \/ \E x \in proofs, t \in {<<F0, G0>>, <<C0, D0>>} : SubstEqStep(x, t[1], t[2])
    \/ \E p \in proofs : ToPAndFstStep(p)
    \/ \E p \in proofs : ToPAndSndStep(p)
    \/ \E p1 \in proofs, p2 \in proofs : PandJoinStep(p1, p2)

SpecFun == InitFun /\ [][NextFun]_vars

(***************************************************************************)
(* Claims about the functional algebra.                                    *)
(***************************************************************************)
\* C11: the backward closure of qu_to_app_eq, given the inverse equation its
\* forward closure returns for f(a) == b, returns f(a) == b again.
C11_InverseRoundTrip ==
    step.tactic = "qu_to_app_eq.1" =>
        LET A == step.targs[1]
            B == step.targs[2]
            F == step.targs[3]
        IN  QuToAppEqFwdTy(A, B, F, Eq(App(F, A), B)) \in step.ins
                => step.out = Eq(App(F, A), B)

\* The equation of an inverse was turned round and back into the assumed equation.
C11_Witness ==
    /\ step.tactic = "qu_to_app_eq.1"
    /\ step.targs = <<A0, B0, Inv(F0)>>
    /\ step.out = Eq(App(Inv(F0), A0), B0)
    /\ step.out \in hyps
    /\ Eq(App(Inv(Inv(F0)), B0), A0) \in proofs \ hyps

\* C12: norm1_comp returns f[g1 -> g2][g3 -> g4] == f[(g3 . g1) -> (g4 . g2)], its
\* chain of rewrites leading from the first term to the second, and sym_norm1_comp
\* returns f[g][h] == f[h . g].
C12_NormalizationsCollapse ==
    /\ step.tactic = "norm1_comp" =>
        LET t == step.targs
        IN  step.out = Eq(Norm1(Norm1(t[1], t[2], t[3]), t[4], t[5]),
                          Norm1(t[1], FComp(t[4], t[2]), FComp(t[5], t[3])))
    /\ step.tactic = "sym_norm1_comp" =>
        LET t == step.targs
        IN  step.out = Eq(SymNorm1(SymNorm1(t[1], t[2]), t[3]),
                          SymNorm1(t[1], FComp(t[3], t[2])))

C12_Witness ==
    /\ step.tactic = "norm1_comp"
    /\ step.targs = <<F0, G0, H0, A0, B0>>
    /\ step.out = Eq(FComp(FComp(B0, FComp(FComp(H0, F0), Inv(G0))), Inv(A0)),
                     FComp(FComp(FComp(B0, H0), F0), Inv(FComp(A0, G0))))

\* C13 as stated: the instance pand_join returns is one of the instances its two
\* arguments were projected from, and projecting it again with to_pand_fst and
\* to_pand_snd returns the PAndFst and the PAndSnd it was joined from.
C13_ProjectJoinRoundTrips ==
    /\ step.tactic = "pand_join" /\ step.out # IllTyped =>
            \E x \in proofs : {ToPAndFstSig(x), ToPAndSndSig(x)} \cap step.ins # {}
                               /\ step.out = x
    /\ \A p1 \in proofs, p2 \in proofs :
            PandJoinSig(p1, p2) # IllTyped /\ step.ins = {PandJoinSig(p1, p2)} =>
                /\ step.tactic = "to_pand_fst" => step.out = p1
                /\ step.tactic = "to_pand_snd" => step.out = p2

\* C13, amended: pand_join of a PAndFst<A, B, C, D> and a PAndSnd<A, B, C, D> returns
\* a PSem<And<A, B>, C, And<A, B>, D>, which is none of the instances projected and
\* to which neither to_pand_fst nor to_pand_snd applies.
C13_JoinLiftsConjunction ==
    step.tactic = "pand_join" /\ step.out # IllTyped =>
        LET t == step.targs
        IN  /\ step.ins = {PAndFst(t[1], t[2], t[3], t[4]), PAndSnd(t[1], t[2], t[3], t[4])}
            /\ step.out = PSem(And(t[1], t[2]), t[3], And(t[1], t[2]), t[4])
            /\ \A x \in proofs :
                    {ToPAndFstSig(x), ToPAndSndSig(x)} \cap step.ins # {} => step.out # x
            /\ ToPAndFstSig(step.out) = IllTyped
            /\ ToPAndSndSig(step.out) = IllTyped

\* The two projections of the core axiom, both derived, were joined.
C13_Witness ==
    /\ step.tactic = "pand_join"
    /\ step.ins = {PAndFst(A0, B0, C0, D0), PAndSnd(A0, B0, C0, D0)}
    /\ step.ins \cap hyps = {}
    /\ step.out = PSem(And(A0, B0), C0, And(A0, B0), D0)

\* C14: fun_ext_symmetry and fun_ext_transitivity, derived through fun_rev_ext, the
\* symmetry or transitivity of tautological equality and fun_ext, return the
\* extensionality type with the functions swapped, respectively chained, and
\* fun_ext on a reflexive tautological equality returns the type of fun_ext_refl.
C14_ExtensionalityIsEquivalence ==
    /\ step.tactic = "fun_ext_symmetry" =>
        LET t == step.targs
        IN  /\ step.ins = {FunExtTy(t[1], t[2], t[3], t[4], t[5])}
            /\ step.out = FunExtTy(t[2], t[1], t[3], t[4], t[5])
    /\ step.tactic = "fun_ext_transitivity" =>
        LET t == step.targs
        IN  /\ step.ins = {FunExtTy(t[1], t[2], t[4], t[5], t[6]),
                           FunExtTy(t[2], t[3], t[4], t[5], t[6])}
            /\ step.out = FunExtTy(t[1], t[3], t[4], t[5], t[6])
    /\ step.tactic = "fun_ext" /\ step.targs[1] = step.targs[2] =>
        step.out = FunExtReflSig(step.targs[1], step.targs[3], step.targs[4], step.targs[5])

C14_Witness ==
    /\ step.tactic = "fun_ext_transitivity"
    /\ step.out = FunExtTy(F0, H0, X0, Y0, A0)
    /\ step.out \notin hyps

\* C20: the equation subst_eq returns for a[c := d] == b has a[c := d][e := f] on
\* the left and b[e := f] on the right.
C20_SubstEqSubstitutesInRhs ==
    step.tactic = "subst_eq" =>
        \A x \in step.ins :
            /\ EqLeft(step.out) = Subst(EqLeft(x), step.targs[1], step.targs[2])
            /\ EqRight(step.out) = Subst(EqRight(x), step.targs[1], step.targs[2])

(***************************************************************************)
(* The tactics of and.rs and eq.rs at the level of types: each signature   *)
(* as the sequence of its parameter types followed by its return type.     *)
(***************************************************************************)
\* exc_left; ExcLeftKeepsA is the variant that returns the excluded side.
ExcLeftKeepsA(a, b) == <<And(Not(a), Or(a, b)), a>>
ExcLeftTy(a, b) == <<And(Not(a), Or(a, b)), b>>

AndTy(t, a, b, c) ==
    CASE t = "symmetry" -> <<And(a, b), And(b, a)>>
      [] t = "assoc" -> <<And(And(a, b), c), And(a, And(b, c))>>
      [] t = "rev_assoc" -> <<And(a, And(b, c)), And(And(a, b), c)>>
      [] t = "distrib" -> <<And(a, Or(b, c)), Or(And(a, b), And(a, c))>>
      [] t = "rev_distrib" -> <<Or(And(a, b), And(a, c)), And(a, Or(b, c))>>
      [] t = "exc_left" -> ExcLeftTy(a, b)
      [] t = "exc_right" -> <<And(Not(b), Or(a, b)), a>>
      [] t = "exc_both" -> <<And(And(Not(a), Not(b)), Or(a, b)), False>>
      [] t = "to_de_morgan" -> <<And(Not(a), Not(b)), Not(Or(a, b))>>
      [] t = "from_de_morgan" -> <<Not(Or(a, b)), And(Not(a), Not(b))>>
      [] t = "false_arg" -> <<And(False, a), False>>
      [] t = "true_arg" -> <<And(True, a), a>>
      [] t = "in_left_arg" -> <<And(a, b), Imply(a, c), And(c, b)>>
      [] t = "in_right_arg" -> <<And(a, b), Imply(b, c), And(a, c)>>
      [] t = "in_left" -> <<And(a, b), Imply(a, c), And(c, b)>>
      [] t = "in_right" -> <<And(a, b), Imply(b, c), And(a, c)>>
      [] t = "from_imply" -> <<Not(Imply(a, b)), And(a, Not(b))>>
      [] t = "to_imply" -> <<And(a, Not(b)), Not(Imply(a, b))>>
      [] t = "to_eq_pos" -> <<And(a, b), Eq(a, b)>>
      [] t = "to_eq_neg" -> <<And(Not(a), Not(b)), Eq(a, b)>>
      [] t = "to_or" -> <<And(a, b), Or(a, b)>>

EqTy(t, a, b, c) ==
    CASE t = "transitivity" -> <<Eq(a, b), Eq(b, c), Eq(a, c)>>
      [] t = "double_neg" -> <<a, Eq(a, Not(Not(a)))>>
      [] t = "commute" -> <<Eq(a, b), Eq(b, a)>>
      [] t = "imply_to_or" -> <<Eq(Imply(a, b), Or(Not(a), b))>>
      [] t = "refl" -> <<Eq(a, a)>>
      [] t = "modus_tollens" -> <<Eq(a, b), Eq(Not(b), Not(a))>>
      [] t = "rev_modus_tollens" -> <<Eq(Not(a), Not(b)), Eq(b, a)>>
      [] t = "is_true" -> <<Eq(True, a), a>>
      [] t = "is_false" -> <<Eq(False, a), Not(a)>>

AndTactics ==
    {"symmetry", "assoc", "rev_assoc", "distrib", "rev_distrib", "exc_left", "exc_right",
     "exc_both", "to_de_morgan", "from_de_morgan", "false_arg", "true_arg", "in_left_arg",
     "in_right_arg", "in_left", "in_right", "from_imply", "to_imply", "to_eq_pos",
     "to_eq_neg", "to_or"}
EqTactics ==
    {"transitivity", "double_neg", "commute", "imply_to_or", "refl", "modus_tollens",
     "rev_modus_tollens", "is_true", "is_false"}

\* The parameter types and the return type of a signature.
Params(sig) == {sig[i] : i \in 1..(Len(sig) - 1)}
Ret(sig) == sig[Len(sig)]

\* A call of a tactic on proofs held: a proof of its return type is held after it.
\* The type arguments are those that occur in the types of the call.
Conclude(t, sig) ==
    /\ Params(sig) \subseteq proofs
    /\ Cardinality((proofs \cup {Ret(sig)}) \ hyps) <= MaxDerived
    /\ proofs' = proofs \cup {Ret(sig)}
    /\ step' = [tactic |-> t, targs |-> <<>>, ins |-> Params(sig), out |-> Ret(sig)]
    /\ UNCHANGED <<hyps, notAssembly>>

AndTactic(t, a, b, c) ==
    /\ Conclude(t, AndTy(t, a, b, c))

EqTactic(t, a, b, c) ==
    /\ Conclude(t, EqTy(t, a, b, c))

\* The proofs assumed are the parameters of one tactic at A, B and C.
InitTactics ==
    /\ hyps \in {Params(AndTy(t, A0, B0, C0)) : t \in AndTactics}
                \cup {Params(EqTy(t, A0, B0, C0)) : t \in EqTactics}
    /\ proofs = hyps
    /\ step = [tactic |-> "none", targs |-> <<>>, ins |-> {}, out |-> <<>>]
    /\ PathIdle
    /\ RunIdle
    /\ CompIdle

\* The type arguments the tactics are called at: A, B and C in order, swapped,
\* reversed, and with one proposition for two parameters.
TypeArgs == {<<A0, B0, C0>>, <<B0, A0, C0>>, <<C0, B0, A0>>, <<A0, A0, B0>>}

NextTactics ==
    \/ \E t \in AndTactics, x \in TypeArgs : AndTactic(t, x[1], x[2], x[3])
    \/ \E t \in EqTactics, x \in TypeArgs : EqTactic(t, x[1], x[2], x[3])

SpecTactics == InitTactics /\ [][NextTactics]_vars

(***************************************************************************)
(* Claims about the classical validity of the tactics.                     *)
(***************************************************************************)
\* The truth value of a proposition when exactly the atoms in val are true.
RECURSIVE Holds(_, _)
Holds(T, val) ==
    CASE T = True -> TRUE
      [] T = False -> FALSE
      [] Len(T) = 1 /\ T \notin {True, False} -> T \in val
      [] Len(T) = 3 /\ T[1] = "And" -> Holds(T[2], val) /\ Holds(T[3], val)
      [] Len(T) = 3 /\ T[1] = "Or" -> Holds(T[2], val) \/ Holds(T[3], val)
      [] Len(T) = 3 /\ T[1] = "Imply" -> Holds(T[2], val) => Holds(T[3], val)

\* C23: under every assignment of truth values to A, B and C, the return type of
\* the tactic applied last is true when all its parameter types are, and every
\* proof held is of a true proposition when all the proofs assumed are: False is
\* never concluded from true premises.
C23_TacticsClassicallyValid ==
    \A val \in SUBSET {A0, B0, C0} :
        /\ step.tactic # "none" /\ (\A p \in step.ins : Holds(p, val)) => Holds(step.out, val)
        /\ (\A h \in hyps : Holds(h, val)) => \A p \in proofs : Holds(p, val)

\* exc_both has concluded False, from premises that no assignment makes true.
C23_Witness ==
    /\ step.tactic = "exc_both"
    /\ step.ins = {And(And(Not(A0), Not(B0)), Or(A0, B0))}
    /\ step.out = False
    /\ False \in proofs
    /\ \A val \in SUBSET {A0, B0, C0} : ~Holds(And(And(Not(A0), Not(B0)), Or(A0, B0)), val)

====
